---- MODULE Spec2Model ----
(***************************************************************************)
(* storm-bolt: cluster configuration (storm/bolt/configuration.py),        *)
(* cluster creation and destruction (storm/bolt/manager.py, Bolt) and the  *)
(* exit code of the command line (storm/bolt/manager.py, main).            *)
(*                                                                         *)
(* Python values that may be None are modelled as sets of at most one      *)
(* element: None is {}, a value v is {v}.  Truthiness (`if x:`) is spelled *)
(* out per type, as Python computes it.                                    *)
(***************************************************************************)
EXTENDS Integers, Sequences, FiniteSets, TLC

VARIABLES clock, hjsonString, configurationInfo, warnings, invocation, invocations, driverLog,
          exitCode, deployed, clusterList, nodeList, destruction, destructions

vars == <<clock, hjsonString, configurationInfo, warnings, invocation, invocations, driverLog,
          exitCode, deployed, clusterList, nodeList, destruction, destructions>>

\* what the create command works on, and what the destroy commands work on
createVars == <<hjsonString, configurationInfo, warnings, invocation, invocations, driverLog>>

destroyVars == <<clusterList, nodeList, destruction, destructions>>

(***************************************************************************)
(* Bounds of the model                                                     *)
(***************************************************************************)
MaxTime == 1
MaxDisks == 2
MaxNames == 2
MaxNodes == 2
MaxSections == 2
MaxFileNodes == 3
MaxCalls == 2
MaxRequest == 2
MaxDeployments == 2
MaxErrors == 2

(***************************************************************************)
(* Python values                                                           *)
(***************************************************************************)
None == {}

Some(v) == {v}

Get(o) == CHOOSE v \in o : TRUE

TruthyInt(o) == o # None /\ Get(o) # 0

TruthyList(o) == o # None /\ Get(o) # <<>>

TruthyStr(o) == o # None /\ Get(o) # ""

SeqsUpTo(S, n) == UNION {[1..k -> S] : k \in 0..n}

Prefixes(s, n) == {SubSeq(s, 1, k) : k \in 0..n}

(***************************************************************************)
(* configuration.py: module constants                                      *)
(***************************************************************************)
DEFAULT_CPUS == 2

DEFAULT_IMAGE_ID == "centos-7.2"

DEFAULT_NUMBER_OF_NODES == 3

DEFAULT_RAM == 2048

OS_DISK == 100

\* os.getlogin()
Login == "storm"

\* "{}-{}".format(os.getlogin(), int(time.time()))
DefaultName(now) == Login \o "-" \o ToString(now)

\* mutant: "node{}".format(i), names counted from 0
GenerateNodeNamesFromZero(numberOfNodes) ==
    IF numberOfNodes <= 0 THEN <<>>
    ELSE [i \in 1..numberOfNodes |-> "node" \o ToString(i - 1)]

\* ["node{}".format(i+1) for i in range(numberOfNodes)]
GenerateNodeNames(numberOfNodes) ==
    IF numberOfNodes <= 0 THEN <<>>
    ELSE [i \in 1..numberOfNodes |-> "node" \o ToString(i)]

\* self.disks = [100] + disks if disks else [100]
InitDisks(disks) ==
    IF TruthyList(disks) THEN <<OS_DISK>> \o Get(disks) ELSE <<OS_DISK>>

\* if nodes: self.nodes = nodes; self.numberOfNodes = len(self.nodes)
\* else: generated names, self.numberOfNodes = numberOfNodes
InitNodes(nodes, numberOfNodes) ==
    IF TruthyList(nodes)
    THEN [nodes |-> Get(nodes), numberOfNodes |-> Len(Get(nodes))]
    ELSE [nodes |-> GenerateNodeNames(numberOfNodes), numberOfNodes |-> numberOfNodes]

\* A keyword argument of ClusterInfo.__init__, or its default when not passed.
Kw(kw, key, default) == IF key \in DOMAIN kw THEN kw[key] ELSE default

\* ClusterInfo.__init__(**kw) evaluated at time `now`.  name, disks, locationId
\* and nodes are optional values; cpus, imageId, numberOfNodes and ram are
\* plain values with module defaults.
ClusterInfo(kw, now) ==
    LET name == Kw(kw, "name", None)
        n == InitNodes(Kw(kw, "nodes", None),
                       Kw(kw, "numberOfNodes", DEFAULT_NUMBER_OF_NODES))
    IN [name |-> IF TruthyStr(name) THEN Get(name) ELSE DefaultName(now),
        cpus |-> Kw(kw, "cpus", DEFAULT_CPUS),
        disks |-> InitDisks(Kw(kw, "disks", None)),
        image |-> Kw(kw, "imageId", DEFAULT_IMAGE_ID),
        location |-> Kw(kw, "locationId", None),
        nodes |-> n.nodes,
        numberOfNodes |-> n.numberOfNodes,
        ram |-> Kw(kw, "ram", DEFAULT_RAM)]

\* ClusterInfo() with no arguments
NoKw == <<>>

(***************************************************************************)
(* configuration.py: parsing                                               *)
(*                                                                         *)
(* A parsed Hjson object is a function from its keys to their values.  The *)
(* value of `nodes` is an integer or a list of strings: isList tells which *)
(* (isinstance(nodes, list)), and the other field is left at 0 or <<>>.    *)
(***************************************************************************)
NodeCount(n) == [isList |-> FALSE, count |-> n, names |-> <<>>]

NodeList(names) == [isList |-> TRUE, count |-> 0, names |-> names]

\* if nodes:
TruthyNodes(nodes) == IF nodes.isList THEN nodes.names # <<>> ELSE nodes.count # 0

\* getTypedParameter(dictionary, key, expectedType, default): removes the key
\* from the dictionary and returns its value, or the default when absent.
getTypedParameter(dictionary, key, default) ==
    [value |-> IF key \in DOMAIN dictionary THEN Some(dictionary[key]) ELSE default,
     dictionary |-> [k \in DOMAIN dictionary \ {key} |-> dictionary[k]]]

\* nodes = clusterInfoDict.get("nodes", None)
\* if nodes: list -> clusterParameters["nodes"], else -> clusterParameters["numberOfNodes"]
NodesParameter(clusterInfoDict) ==
    IF "nodes" \in DOMAIN clusterInfoDict /\ TruthyNodes(clusterInfoDict["nodes"])
    THEN IF clusterInfoDict["nodes"].isList THEN {"nodes"} ELSE {"numberOfNodes"}
    ELSE {}

\* mutant: the keys left in the dictionary are dropped without a word
RemainingKeysUnreported(clusterInfoDict) == {}

\* for key, value in clusterInfoDict.items(): cls.log.warn(...)
\* the keys warned about: those still in the dictionary after the parameters
\* were taken out of it
RemainingKeys(clusterInfoDict) == DOMAIN clusterInfoDict

\* ClusterInfo.fromHjsonSerializable on {"cluster": clusterInfoDict} at time
\* `now`: the ClusterInfo built and the keys warned about.
fromHjsonSerializable(clusterInfoDict, now) ==
    LET cpus == getTypedParameter(clusterInfoDict, "cpus", Some(DEFAULT_CPUS))
        disks == getTypedParameter(cpus.dictionary, "disks", None)
        imageId == getTypedParameter(disks.dictionary, "imageId", Some(DEFAULT_IMAGE_ID))
        locationId == getTypedParameter(imageId.dictionary, "locationId", None)
        name == getTypedParameter(locationId.dictionary, "name", Some(DefaultName(now)))
        ram == getTypedParameter(name.dictionary, "ram", Some(DEFAULT_RAM))
        \* disks = clusterInfoDict.get("disks", None): the key is gone by now
        disksAgain == IF "disks" \in DOMAIN ram.dictionary
                         /\ ram.dictionary["disks"] # <<>>
                      THEN getTypedParameter(ram.dictionary, "disks", None)
                      ELSE [value |-> disks.value, dictionary |-> ram.dictionary]
        nodesKey == NodesParameter(disksAgain.dictionary)
        nodes == IF nodesKey = {} THEN [value |-> None, dictionary |-> disksAgain.dictionary]
                 ELSE getTypedParameter(disksAgain.dictionary, "nodes", None)
        kw == [k \in {"cpus", "disks", "imageId", "locationId", "name", "ram"} \cup nodesKey |->
                 CASE k = "cpus" -> Get(cpus.value)
                   [] k = "disks" -> disksAgain.value
                   [] k = "imageId" -> Get(imageId.value)
                   [] k = "locationId" -> locationId.value
                   [] k = "name" -> name.value
                   [] k = "ram" -> Get(ram.value)
                   [] k = "nodes" -> Some(Get(nodes.value).names)
                   [] k = "numberOfNodes" -> Get(nodes.value).count]
    IN [clusterInfo |-> ClusterInfo(kw, now),
        warnings |-> RemainingKeys(nodes.dictionary)]

(***************************************************************************)
(* A configuration text is a sequence of top-level sections, each made of  *)
(* whole lines: the `cluster { ... }` block (body: its parsed object), a   *)
(* section whose first line starts with `deployments:`, or a blank line.   *)
(***************************************************************************)
NoBody == <<>>

ClusterSection(body) == [kind |-> "cluster", body |-> body]

OtherSection(kind) == [kind |-> kind, body |-> NoBody]

\* mutant: the pattern is not anchored to the deployments line and matches from
\* the start of the text
DeploymentsMatchFromStart(text) ==
    IF \A i \in 1..Len(text) : text[i].kind # "deployments" THEN None ELSE Some(1)

\* re.search(r"^(?P<deployments>deployments\s*:.*)", hjsonString,
\*           re.MULTILINE | re.DOTALL): the first line that starts with
\* `deployments:`, and with DOTALL everything after it up to the end of the text.
DeploymentsMatch(text) ==
    LET starts == {i \in 1..Len(text) : text[i].kind = "deployments"}
    IN IF starts = {} THEN None
       ELSE Some(CHOOSE i \in starts : \A j \in starts : i <= j)

\* hjsonString.replace(deployments.group("deployments"), ""): the match runs to
\* the end of the text, so what is left is the text before it.
RemoveDeployments(text, match) ==
    IF match = None THEN text ELSE SubSeq(text, 1, Get(match) - 1)

\* ClusterInfo.fromHjson(hjsonString): the object hook turns the object with a
\* "cluster" key into a ClusterInfo; a text without one yields no ClusterInfo.
ClusterInfoFromHjson(text, now) ==
    LET blocks == {i \in 1..Len(text) : text[i].kind = "cluster"}
    IN IF blocks = {} THEN None
       ELSE Some(fromHjsonSerializable(
                     text[CHOOSE i \in blocks : \A j \in blocks : j <= i].body, now))

\* ConfigurationInfo.__init__: self.cluster = clusterInfo if clusterInfo else ClusterInfo()
ConfigurationInfo(clusterInfo, deploymentInfos, now) ==
    [cluster |-> IF clusterInfo # None THEN Get(clusterInfo) ELSE ClusterInfo(NoKw, now),
     deploymentInfos |-> IF deploymentInfos # None THEN Get(deploymentInfos) ELSE <<>>]

\* ConfigurationInfo.fromHjson(hjsonString) at time `now`.  deploymentInfos is
\* the text handed to DeploymentInfos.fromHjson.
fromHjson(text, now) ==
    LET match == DeploymentsMatch(text)
        deploymentInfos == IF match = None THEN None
                           ELSE Some(SubSeq(text, Get(match), Len(text)))
        parsed == ClusterInfoFromHjson(RemoveDeployments(text, match), now)
    IN [configurationInfo |->
            ConfigurationInfo(IF parsed = None THEN None ELSE Some(Get(parsed).clusterInfo),
                              deploymentInfos, now),
        warnings |-> IF parsed = None THEN {} ELSE Get(parsed).warnings]

(***************************************************************************)
(* The driver (external collaborator): a fixed inventory.                  *)
(***************************************************************************)
DriverImages == {"centos-7.2", "ubuntu-16.04"}

DriverLocations == <<"dal09", "lon02">>

\* the size catalog: <<cpu, ram, diskCapacities>>
DriverSizes ==
    {<<2, 2048, <<100>>>>,
     <<2, 2048, <<100, 50>>>>,
     <<4, 2048, <<100>>>>,
     <<4, 4096, <<100, 50>>>>,
     <<2, 4096, <<100, 100, 100, 100>>>>}

\* self.driver.get_image(clusterInfo.image)
get_image(id) == IF id \in DriverImages THEN Some([id |-> id]) ELSE None

\* self.driver.ex_get_size_by_attributes(cpus, ram, disks)
ex_get_size_by_attributes(cpus, ram, disks) ==
    IF <<cpus, ram, disks>> \in DriverSizes
    THEN Some([cpu |-> cpus, ram |-> ram, diskCapacities |-> disks])
    ELSE None

(***************************************************************************)
(* manager.py: Bolt.createCluster                                          *)
(***************************************************************************)
\* if cluster: clusterInfo.name = cluster
OverrideName(clusterInfo, cluster) ==
    IF TruthyStr(cluster) THEN [clusterInfo EXCEPT !.name = Get(cluster)]
    ELSE clusterInfo

\* if cpus: clusterInfo.cpus = cpus
OverrideCpus(clusterInfo, cpus) ==
    IF TruthyInt(cpus) THEN [clusterInfo EXCEPT !.cpus = Get(cpus)]
    ELSE clusterInfo

\* mutant: clusterInfo.disks = disks, the OS disk forgotten
OverrideDisksNoOsDisk(clusterInfo, disks) ==
    IF TruthyList(disks) THEN [clusterInfo EXCEPT !.disks = Get(disks)]
    ELSE clusterInfo

\* mutant: clusterInfo.disks = clusterInfo.disks + disks, appended to the file's
OverrideDisksAppend(clusterInfo, disks) ==
    IF TruthyList(disks) THEN [clusterInfo EXCEPT !.disks = clusterInfo.disks \o Get(disks)]
    ELSE clusterInfo

\* if disks: clusterInfo.disks = [100] + disks
OverrideDisks(clusterInfo, disks) ==
    IF TruthyList(disks) THEN [clusterInfo EXCEPT !.disks = <<OS_DISK>> \o Get(disks)]
    ELSE clusterInfo

\* if imageId: clusterInfo.image = imageId
OverrideImage(clusterInfo, imageId) ==
    IF TruthyStr(imageId) THEN [clusterInfo EXCEPT !.image = Get(imageId)]
    ELSE clusterInfo

\* if locationId: clusterInfo.location = locationId
OverrideLocation(clusterInfo, locationId) ==
    IF TruthyStr(locationId) THEN [clusterInfo EXCEPT !.location = locationId]
    ELSE clusterInfo

\* location = None
\* for availableLocation in self.driver.list_locations():
\*     if availableLocation.id == clusterInfo.location: location = availableLocation
FindLocation(locationId) ==
    LET matches == {i \in 1..Len(DriverLocations) : Some(DriverLocations[i]) = locationId}
    IN IF matches = {} THEN None
       ELSE Some([id |-> DriverLocations[CHOOSE i \in matches : \A j \in matches : j <= i]])

\* mutant: the names are replaced and the node count is left as it was
OverrideNodesKeepCount(clusterInfo, nodes, numberOfNodes) ==
    IF TruthyList(nodes)
    THEN [clusterInfo EXCEPT !.nodes = Get(nodes)]
    ELSE IF TruthyInt(numberOfNodes)
    THEN [clusterInfo EXCEPT !.nodes = GenerateNodeNames(Get(numberOfNodes)),
                             !.numberOfNodes = Get(numberOfNodes)]
    ELSE clusterInfo

\* mutant: the node count is looked at before the names
OverrideNodesCountFirst(clusterInfo, nodes, numberOfNodes) ==
    IF TruthyInt(numberOfNodes)
    THEN [clusterInfo EXCEPT !.nodes = GenerateNodeNames(Get(numberOfNodes)),
                             !.numberOfNodes = Get(numberOfNodes)]
    ELSE IF TruthyList(nodes)
    THEN [clusterInfo EXCEPT !.nodes = Get(nodes), !.numberOfNodes = Len(Get(nodes))]
    ELSE clusterInfo

\* if nodes: ... elif numberOfNodes: ...
OverrideNodes(clusterInfo, nodes, numberOfNodes) ==
    IF TruthyList(nodes)
    THEN [clusterInfo EXCEPT !.nodes = Get(nodes), !.numberOfNodes = Len(Get(nodes))]
    ELSE IF TruthyInt(numberOfNodes)
    THEN [clusterInfo EXCEPT !.nodes = GenerateNodeNames(Get(numberOfNodes)),
                             !.numberOfNodes = Get(numberOfNodes)]
    ELSE clusterInfo

\* if ram: clusterInfo.ram = ram
OverrideRam(clusterInfo, ram) ==
    IF TruthyInt(ram) THEN [clusterInfo EXCEPT !.ram = Get(ram)]
    ELSE clusterInfo

\* log.error("... '%d' cpus, '%d' ram and '%s' disks",
\*           cpus, ram, ",".join(str(capacity for capacity in disks)))
\* The arguments are the parameters of createCluster, not the fields of
\* clusterInfo.  Building the generator over disks=None raises TypeError before
\* log.error is called; '%d' of None fails inside logging, which swallows it
\* and emits no message.
SizeError(cpus, ram, disks) ==
    IF disks = None THEN [raised |-> TRUE, errors |-> <<>>]
    ELSE [raised |-> FALSE,
          errors |-> <<[about |-> "size", formatted |-> cpus # None /\ ram # None]>>]

\* mutant: the resolved location is not passed on
CreationCallsNoLocation(clusterInfo, image, location, size) ==
    <<[cluster |-> clusterInfo.name, image |-> image, location |-> None,
       names |-> clusterInfo.nodes, size |-> size]>>

\* self.driver.ex_create_cluster(cluster=clusterInfo.name, image=image,
\*     location=location, names=clusterInfo.nodes, size=size)
CreationCalls(clusterInfo, image, location, size) ==
    <<[cluster |-> clusterInfo.name, image |-> image, location |-> location,
       names |-> clusterInfo.nodes, size |-> size]>>

\* mutant: the check of the resolved image is missing
ImageNeverNotFound(image) == FALSE

\* if not image: / if not location: / if not size:
ImageNotFound(image) == image = None

LocationNotFound(location) == location = None

SizeNotFound(size) == size = None

\* What one run of createCluster leaves behind.
Outcome(clusterInfo, returned, errors, calls) ==
    [clusterInfo |-> clusterInfo, returned |-> returned, errors |-> errors, calls |-> calls]

\* Bolt.createCluster(cluster, clusterInfo, cpus, disks, imageId, locationId,
\* nodes, numberOfNodes, ram) at time `now`; driverCreates is whether the
\* driver's ex_create_cluster returns a cluster.
createCluster(clusterInfoArg, args, now, driverCreates) ==
    LET c0 == IF clusterInfoArg = None THEN ClusterInfo(NoKw, now) ELSE Get(clusterInfoArg)
        c1 == OverrideName(c0, args.cluster)
        c2 == OverrideDisks(OverrideCpus(c1, args.cpus), args.disks)
        c3 == OverrideImage(c2, args.imageId)
        image == get_image(c3.image)
        c4 == OverrideLocation(c3, args.locationId)
        location == FindLocation(c4.location)
        c5 == OverrideNodes(c4, args.nodes, args.numberOfNodes)
        c6 == OverrideRam(c5, args.ram)
        size == ex_get_size_by_attributes(c6.cpus, c6.ram, c6.disks)
        sizeError == SizeError(args.cpus, args.ram, args.disks)
    IN IF ImageNotFound(image)
       THEN Outcome(c3, "None", <<[about |-> "image", formatted |-> TRUE]>>, <<>>)
       ELSE IF LocationNotFound(location)
       THEN Outcome(c4, "None", <<[about |-> "location", formatted |-> TRUE]>>, <<>>)
       ELSE IF SizeNotFound(size)
       THEN Outcome(c6, IF sizeError.raised THEN "TypeError" ELSE "None",
                    sizeError.errors, <<>>)
       ELSE Outcome(c6, IF driverCreates THEN "cluster" ELSE "None", <<>>,
                    CreationCalls(c6, image, location, size))

(***************************************************************************)
(* manager.py: Bolt.destroyCluster and Bolt.destroyNode                    *)
(*                                                                         *)
(* clusterMap and nodesMap are keyed by name, so the driver's listing is   *)
(* modelled as the set of names it holds.  `results` gives, for the i-th   *)
(* requested name, what the driver's destroy call returns for it.          *)
(***************************************************************************)
\* the positions of the requested names that the listing does not hold
Missing(names, listed) == {i \in 1..Len(names) : names[i] \notin listed}

FirstMissing(names, listed) ==
    CHOOSE i \in Missing(names, listed) : \A j \in Missing(names, listed) : i <= j

\* mutant: every name found before the first missing one is destroyed before
\* the missing name is noticed
destroyClustersUntilMissing(clusterNames, clusterMap) ==
    IF Missing(clusterNames, clusterMap) = {} THEN clusterNames
    ELSE SubSeq(clusterNames, 1, FirstMissing(clusterNames, clusterMap) - 1)

\* for clusterName in clusterNames:
\*     if clusterName in clusterMap: destroyClusters.append(clusterMap[clusterName])
\*     else: log.error(...); return False
\* the clusters the destroy loop runs over: none when a name is missing
destroyClusters(clusterNames, clusterMap) ==
    IF Missing(clusterNames, clusterMap) = {} THEN clusterNames ELSE <<>>

\* for nodeName in nodeNames: ... else: log.error(...); return False
destroyNodes(nodeNames, nodesMap) ==
    IF Missing(nodeNames, nodesMap) = {} THEN nodeNames ELSE <<>>

\* for cluster in destroyClusters:
\*     successful = cluster.destroy()
\*     cleanupKnownHosts(cluster.nodes.values())
ClusterDestroyCalls(found) ==
    [i \in 1..(2 * Len(found)) |->
        IF i % 2 = 1 THEN [op |-> "destroy", name |-> found[(i + 1) \div 2]]
        ELSE [op |-> "cleanupKnownHosts", name |-> found[i \div 2]]]

\* successful = False; for cluster in destroyClusters: successful = cluster.destroy()
\* return successful
LastSuccessful(found, results) ==
    IF found = <<>> THEN FALSE ELSE results[Len(found)]

\* Bolt.destroyCluster(*clusterNames) against the listing clusterMap
destroyCluster(clusterNames, clusterMap, results) ==
    LET found == destroyClusters(clusterNames, clusterMap)
        missing == Missing(clusterNames, clusterMap)
    IN [returned |-> IF missing # {} THEN FALSE ELSE LastSuccessful(found, results),
        errors |-> IF missing # {}
                   THEN <<clusterNames[FirstMissing(clusterNames, clusterMap)]>>
                   ELSE <<>>,
        calls |-> ClusterDestroyCalls(found),
        destroyed |-> {found[i] : i \in {i \in 1..Len(found) : results[i]}}]

\* all(self.driver.destroy_node(node) for node in destroyNodes): the generator
\* is consumed up to and including the first call that returns False
NodesTried(found, results) ==
    LET failed == {i \in 1..Len(found) : ~results[i]}
    IN IF failed = {} THEN Len(found)
       ELSE CHOOSE i \in failed : \A j \in failed : i <= j

\* Bolt.destroyNode(*nodeNames) against the listing nodesMap
destroyNode(nodeNames, nodesMap, results) ==
    LET found == destroyNodes(nodeNames, nodesMap)
        missing == Missing(nodeNames, nodesMap)
        tried == NodesTried(found, results)
    IN [returned |-> IF missing # {} THEN FALSE
                     ELSE \A i \in 1..Len(found) : results[i],
        errors |-> IF missing # {}
                   THEN <<nodeNames[FirstMissing(nodeNames, nodesMap)]>>
                   ELSE <<>>,
        calls |-> [i \in 1..tried |-> [op |-> "destroy_node", name |-> found[i]]],
        destroyed |-> {found[i] : i \in {i \in 1..tried : results[i]}}]

(***************************************************************************)
(* manager.py: main, the value it returns to sys.exit                      *)
(***************************************************************************)
\* the numberOfErrors of the first deployment section that reports errors:
\* for deploymentSection in ...: if results.numberOfErrors: return results.numberOfErrors
FirstErrorCount(errorCounts) ==
    LET failed == {i \in 1..Len(errorCounts) : errorCounts[i] # 0}
    IN IF failed = {} THEN 0
       ELSE errorCounts[CHOOSE i \in failed : \A j \in failed : i <= j]

\* the deploy calls made: up to and including the first section with errors
Deployed(errorCounts) ==
    LET failed == {i \in 1..Len(errorCounts) : errorCounts[i] # 0}
    IN IF failed = {} THEN errorCounts
       ELSE SubSeq(errorCounts, 1, CHOOSE i \in failed : \A j \in failed : i <= j)

\* the status of the process when an exception leaves main uncaught
UNCAUGHT_EXCEPTION == 1

\* cluster = bolt.createCluster(...); if not cluster: return 1
\* ... deployment sections ...; return 0
MainCreateExit(returned, errorCounts) ==
    IF returned = "TypeError" THEN UNCAUGHT_EXCEPTION
    ELSE IF returned = "None" THEN 1
    ELSE FirstErrorCount(errorCounts)

\* bolt.destroyCluster(*args.clusters) / bolt.destroyNode(*args.nodes): the
\* value returned is not looked at; return 0
MainDestroyExit(returned) == 0

\* log.error("Unknown config file format, ..."); return 1
\* except Exception as exception: log.error(exception); return 1
MainConfigExit(reason) == 1

(***************************************************************************)
(* Inputs                                                                  *)
(***************************************************************************)
Opt(S) == {None} \cup {Some(v) : v \in S}

NodeNamePool == <<"alpha", "beta", "gamma", "delta">>

\* command-line arguments of `create cluster`
CliArgs ==
    [cluster : Opt({"demo"}),
     cpus : Opt({4}),
     disks : Opt(SeqsUpTo({50}, MaxDisks)),
     imageId : Opt({"ubuntu-16.04", "rhel-9"}),
     locationId : Opt({"dal09", "fra01"}),
     nodes : Opt(Prefixes(NodeNamePool, MaxNames)),
     numberOfNodes : Opt(0..MaxNodes),
     ram : Opt({4096})]

\* arguments of repeated createCluster calls on one ClusterInfo
ReuseArgs ==
    [cluster : {None},
     cpus : {None},
     disks : Opt({<<50>>}),
     imageId : {None},
     locationId : Opt({"dal09"}),
     nodes : Opt({<<"alpha">>}),
     numberOfNodes : Opt({0, 2}),
     ram : {None}]

\* command-line arguments of `create cluster` in the runs of main
MainArgs ==
    [cluster : {None},
     cpus : {None},
     disks : Opt({<<50>>}),
     imageId : Opt({"rhel-9"}),
     locationId : Opt({"dal09", "fra01"}),
     nodes : {None},
     numberOfNodes : {None},
     ram : Opt({4096})]

\* why main cannot get a configuration out of args.config
ConfigFailures == {"unknown format", "unreadable", "malformed"}

\* the clusters and nodes the driver lists at the start
DriverClusters == {"east", "west"}

DriverNodes == {"node1", "node2"}

\* the names asked for on the command line of `destroy`
ClusterNamePool == {"east", "west", "north"}

NodePool == {"node1", "node2", "node9"}

\* one name or more (nargs="+"), up to MaxRequest
Requests(pool) == UNION {[1..k -> pool] : k \in 1..MaxRequest}

\* The object of a cluster block: the keys whose value is given.
ClusterBlock(values) ==
    [k \in {k \in DOMAIN values : values[k] # None} |-> Get(values[k])]

NodesValues ==
    {NodeCount(n) : n \in 0..MaxFileNodes}
        \cup {NodeList(names) : names \in Prefixes(NodeNamePool, MaxNames)}

\* every cluster block within the bounds, with or without the keys `color`
\* and `numberOfNodes`, which are not parameters of the cluster block
ClusterBlocks ==
    {ClusterBlock([name |-> name, cpus |-> cpus, disks |-> disks, imageId |-> imageId,
                   locationId |-> locationId, nodes |-> nodes, ram |-> ram,
                   color |-> color, numberOfNodes |-> numberOfNodes]) :
        name \in Opt({"demo"}), cpus \in Opt({4}),
        disks \in Opt(SeqsUpTo({50}, MaxDisks)),
        imageId \in Opt({"ubuntu-16.04"}), locationId \in Opt({"lon02"}),
        nodes \in Opt(NodesValues), ram \in Opt({4096}), color \in Opt({"blue"}),
        numberOfNodes \in Opt({5})}

\* the cluster blocks of the configuration files used with createCluster
FileBlocks ==
    {ClusterBlock([name |-> Some("prod"), disks |-> Some(<<100, 100, 100>>),
                   locationId |-> Some("lon02"), nodes |-> Some(NodeCount(2))]),
     ClusterBlock([cpus |-> Some(4), imageId |-> Some("rhel-9"),
                   nodes |-> Some(NodeList(<<"web", "db">>))]),
     ClusterBlock([disks |-> Some(<<50>>), locationId |-> Some("fra01"),
                   ram |-> Some(4096)]),
     ClusterBlock([name |-> None])}

\* the arrangements of at most one cluster block, at most one deployments
\* section and blank lines, up to MaxSections sections
Arrangements ==
    LET AtMostOne(kinds, kind) ==
            Cardinality({i \in 1..Len(kinds) : kinds[i] = kind}) <= 1
    IN {kinds \in SeqsUpTo({"cluster", "deployments", "blank"}, MaxSections) :
            AtMostOne(kinds, "cluster") /\ AtMostOne(kinds, "deployments")}

Section(kind, block) ==
    IF kind = "cluster" THEN ClusterSection(block)
    ELSE OtherSection(kind)

\* the text with the sections of `kinds`, its cluster block being `block`
Text(kinds, block) == [i \in 1..Len(kinds) |-> Section(kinds[i], block)]

\* the layout of the configuration files used with createCluster
FileArrangements == {<<"cluster", "deployments">>}

(***************************************************************************)
(* State machine                                                           *)
(***************************************************************************)
Init ==
    /\ clock = 0
    /\ hjsonString = None
    /\ configurationInfo = None
    /\ warnings = {}
    /\ invocation = None
    /\ invocations = 0
    /\ driverLog = <<>>
    /\ exitCode = None
    /\ deployed = <<>>
    /\ clusterList = DriverClusters
    /\ nodeList = DriverNodes
    /\ destruction = None
    /\ destructions = 0

\* time passes; nothing reads the clock once createCluster has run
Tick ==
    /\ clock < MaxTime
    /\ invocation = None
    /\ exitCode = None
    /\ clock' = clock + 1
    /\ UNCHANGED <<createVars, destroyVars, exitCode, deployed>>

\* main: configurationInfo = ConfigurationInfo()
DefaultConfiguration ==
    /\ configurationInfo = None
    /\ invocation = None
    /\ exitCode = None
    /\ configurationInfo' = Some(ConfigurationInfo(None, None, clock))
    /\ UNCHANGED <<clock, hjsonString, warnings, invocation, invocations, driverLog>>
    /\ UNCHANGED <<destroyVars, exitCode, deployed>>

\* main: configurationInfo = ConfigurationInfo.fromHjson(config)
LoadConfiguration(arrangements, blocks) ==
    /\ configurationInfo = None
    /\ invocation = None
    /\ exitCode = None
    /\ \E kinds \in arrangements, block \in blocks :
        LET text == Text(kinds, block)
            loaded == fromHjson(text, clock)
        IN /\ hjsonString' = Some(text)
           /\ configurationInfo' = Some(loaded.configurationInfo)
           /\ warnings' = loaded.warnings
    /\ UNCHANGED <<clock, invocation, invocations, driverLog>>
    /\ UNCHANGED <<destroyVars, exitCode, deployed>>

\* main: the config file has an unknown extension, or reading or parsing it
\* raises: log.error(...); return 1
ConfigurationFailure ==
    /\ configurationInfo = None
    /\ invocation = None
    /\ destruction = None
    /\ exitCode = None
    /\ \E reason \in ConfigFailures : exitCode' = Some(MainConfigExit(reason))
    /\ UNCHANGED <<clock, createVars, destroyVars, deployed>>

\* bolt.createCluster(cluster=..., clusterInfo=configurationInfo.cluster, ...)
\* or, with no configuration object, bolt.createCluster(cluster=..., ...),
\* at most `limit` times on the same configuration.
CallCreateCluster(arguments, limit) ==
    /\ invocations < limit
    /\ \E args \in arguments, driverCreates \in BOOLEAN :
        LET given == IF configurationInfo = None THEN None
                     ELSE Some(Get(configurationInfo).cluster)
            out == createCluster(given, args, clock, driverCreates)
        IN /\ invocation' = Some([args |-> args, given |-> given, out |-> out,
                                  logged |-> Len(driverLog)])
           /\ driverLog' = driverLog \o out.calls
           /\ configurationInfo' =
                 IF configurationInfo = None THEN None
                 ELSE Some([Get(configurationInfo) EXCEPT !.cluster = out.clusterInfo])
    /\ invocations' = invocations + 1
    /\ UNCHANGED <<clock, hjsonString, warnings>>

CreateCluster(arguments, limit) ==
    /\ CallCreateCluster(arguments, limit)
    /\ UNCHANGED <<destroyVars, exitCode, deployed>>

\* main, `create cluster`: createCluster on the configuration, then the
\* deployment sections of the configuration one after the other; errorCounts
\* are the numberOfErrors the deploy calls report.
MainCreateCluster(arguments) ==
    /\ exitCode = None
    /\ destruction = None
    /\ configurationInfo # None
    /\ CallCreateCluster(arguments, 1)
    /\ \E errorCounts \in SeqsUpTo(0..MaxErrors, MaxDeployments) :
        LET returned == Get(invocation').out.returned
            sections == Get(configurationInfo').deploymentInfos
        IN /\ (returned # "cluster" \/ sections = <<>>) => errorCounts = <<>>
           /\ deployed' = Deployed(errorCounts)
           /\ exitCode' = Some(MainCreateExit(returned, errorCounts))
    /\ UNCHANGED destroyVars

\* bolt.destroyCluster(*clusterNames), at most `limit` destroy calls
CallDestroyCluster(limit) ==
    /\ destructions < limit
    /\ \E clusterNames \in Requests(ClusterNamePool) :
        \E results \in [1..Len(destroyClusters(clusterNames, clusterList)) -> BOOLEAN] :
            LET out == destroyCluster(clusterNames, clusterList, results)
            IN /\ destruction' = Some([type |-> "cluster", names |-> clusterNames,
                                       listed |-> clusterList, results |-> results,
                                       out |-> out])
               /\ clusterList' = clusterList \ out.destroyed
    /\ destructions' = destructions + 1
    /\ UNCHANGED nodeList

\* bolt.destroyNode(*nodeNames), at most `limit` destroy calls
CallDestroyNode(limit) ==
    /\ destructions < limit
    /\ \E nodeNames \in Requests(NodePool) :
        \E results \in [1..Len(destroyNodes(nodeNames, nodeList)) -> BOOLEAN] :
            LET out == destroyNode(nodeNames, nodeList, results)
            IN /\ destruction' = Some([type |-> "node", names |-> nodeNames,
                                       listed |-> nodeList, results |-> results,
                                       out |-> out])
               /\ nodeList' = nodeList \ out.destroyed
    /\ destructions' = destructions + 1
    /\ UNCHANGED clusterList

DestroyCluster ==
    /\ CallDestroyCluster(MaxCalls)
    /\ UNCHANGED <<clock, createVars, exitCode, deployed>>

DestroyNode ==
    /\ CallDestroyNode(MaxCalls)
    /\ UNCHANGED <<clock, createVars, exitCode, deployed>>

\* main, `destroy cluster <names...>`
MainDestroyCluster ==
    /\ exitCode = None
    /\ configurationInfo = None
    /\ CallDestroyCluster(1)
    /\ exitCode' = Some(MainDestroyExit(Get(destruction').out.returned))
    /\ UNCHANGED <<clock, createVars, deployed>>

\* main, `destroy node <names...>`
MainDestroyNode ==
    /\ exitCode = None
    /\ configurationInfo = None
    /\ CallDestroyNode(1)
    /\ exitCode' = Some(MainDestroyExit(Get(destruction').out.returned))
    /\ UNCHANGED <<clock, createVars, deployed>>

\* main: one configuration, one createCluster call
Next ==
    \/ Tick
    \/ DefaultConfiguration
    \/ LoadConfiguration(FileArrangements, FileBlocks)
    \/ CreateCluster(CliArgs, 1)

Spec == Init /\ [][Next]_vars

\* parsing alone, over every cluster block within the bounds
NextParse ==
    \/ Tick
    \/ LoadConfiguration(Arrangements, ClusterBlocks)

SpecParse == Init /\ [][NextParse]_vars

\* one ClusterInfo object passed to several createCluster calls
NextReuse ==
    \/ Tick
    \/ DefaultConfiguration
    \/ LoadConfiguration(FileArrangements, FileBlocks)
    \/ CreateCluster(ReuseArgs, MaxCalls)

SpecReuse == Init /\ [][NextReuse]_vars

\* main run once with one command, up to the value it returns
NextMain ==
    \/ Tick
    \/ DefaultConfiguration
    \/ LoadConfiguration(FileArrangements, FileBlocks)
    \/ ConfigurationFailure
    \/ MainCreateCluster(MainArgs)
    \/ MainDestroyCluster
    \/ MainDestroyNode

SpecMain == Init /\ [][NextMain]_vars

\* destroyCluster and destroyNode called one after the other on one driver
NextDestroy ==
    \/ DestroyCluster
    \/ DestroyNode

SpecDestroy == Init /\ [][NextDestroy]_vars

(***************************************************************************)
(* Properties                                                              *)
(***************************************************************************)
\* the last createCluster call: its arguments, the ClusterInfo it was given
\* (or the default one it built), the ClusterInfo it left and what it did
Called == invocation # None

Args == Get(invocation).args

Given == IF Get(invocation).given = None THEN ClusterInfo(NoKw, clock)
         ELSE Get(Get(invocation).given)

Final == Get(invocation).out.clusterInfo

Returned == Get(invocation).out.returned

Errors == Get(invocation).out.errors

\* the creation calls the driver received during the last createCluster call
Issued == SubSeq(driverLog, Get(invocation).logged + 1, Len(driverLog))

ErrorAbout(what) == \E i \in 1..Len(Errors) : Errors[i].about = what

DriverLocationIds == {DriverLocations[i] : i \in 1..Len(DriverLocations)}

ImageResolves(clusterInfo) == clusterInfo.image \in DriverImages

LocationResolves(clusterInfo) ==
    clusterInfo.location # None /\ Get(clusterInfo.location) \in DriverLocationIds

SizeResolves(clusterInfo) ==
    <<clusterInfo.cpus, clusterInfo.ram, clusterInfo.disks>> \in DriverSizes

\* the location id of the merged spec: the one of the command line, else the file's
MergedLocation == IF Args.locationId # None THEN Args.locationId ELSE Given.location

\* every ClusterInfo of the state
ClusterInfos ==
    (IF configurationInfo = None THEN {} ELSE {Get(configurationInfo).cluster})
        \cup (IF Called THEN {Final} ELSE {})

\* C1: when the image, a given location id or the size has no match in the
\* driver's inventory, createCluster issues no creation call.
C1_NoCreationAfterResolutionFailure ==
    Called =>
        ((\/ ~ImageResolves(Final)
          \/ (Final.location # None /\ ~LocationResolves(Final))
          \/ ~SizeResolves(Final))
            => Issued = <<>>)

C1_Witness ==
    /\ Called
    /\ Args.imageId = Some("rhel-9")
    /\ Args.locationId = Some("dal09")
    /\ Args.disks = Some(<<50>>)
    /\ ErrorAbout("image")
    /\ Issued = <<>>

\* C2: the disk list of every ClusterInfo is non-empty and starts with the
\* 100 GB OS disk, after construction and after every createCluster call.
C2_OsDiskFirst ==
    \A clusterInfo \in ClusterInfos :
        /\ Len(clusterInfo.disks) >= 1
        /\ clusterInfo.disks[1] = 100

C2_Witness ==
    /\ Called
    /\ invocations = 2
    /\ Len(Given.disks) = 2
    /\ Args.disks = Some(<<50>>)
    /\ hjsonString # None
    /\ Final.disks = <<100, 50>>

\* C3: a ClusterInfo whose node list is non-empty has a node count equal to
\* the length of that list.
C3_NodeCountMatchesNames ==
    \A clusterInfo \in ClusterInfos :
        clusterInfo.nodes # <<>> => clusterInfo.numberOfNodes = Len(clusterInfo.nodes)

C3_Witness ==
    /\ Called
    /\ invocations = 2
    /\ Given.numberOfNodes = 2
    /\ Args.nodes = Some(<<"alpha">>)
    /\ Final.nodes = <<"alpha">>
    /\ Final.numberOfNodes = 1

\* C4: a location failure happens only when a location id was given (by the
\* file or the command line) and the driver has no location with that id; with
\* no location id createCluster goes on to size resolution.
C4_NoLocationIdIsNoFailure ==
    Called =>
        /\ (ErrorAbout("location") =>
                MergedLocation # None /\ Get(MergedLocation) \notin DriverLocationIds)
        /\ (ImageResolves(Final) /\ MergedLocation = None =>
                ErrorAbout("size") \/ Returned = "TypeError" \/ Issued # <<>>)

\* C5: when image, location and size resolve, createCluster issues exactly one
\* creation call, carrying the final name, the resolved image, location and size
\* and the final node names; no call of createCluster issues more than one.
C5_OneCreationCall ==
    Called =>
        /\ Len(Issued) <= 1
        /\ (ImageResolves(Final) /\ LocationResolves(Final) /\ SizeResolves(Final) =>
                Issued = <<[cluster |-> Final.name,
                            image |-> Some([id |-> Final.image]),
                            location |-> Some([id |-> Get(Final.location)]),
                            names |-> Final.nodes,
                            size |-> Some([cpu |-> Final.cpus, ram |-> Final.ram,
                                           diskCapacities |-> Final.disks])]>>)

C5_Witness ==
    /\ Called
    /\ Len(Issued) = 1
    /\ Args.cluster = Some("demo")
    /\ Args.imageId = Some("ubuntu-16.04")
    /\ Args.locationId = Some("dal09")
    /\ Args.nodes = Some(<<"alpha", "beta">>)
    /\ Args.disks = Some(<<50>>)
    /\ Issued[1].cluster = "demo"
    /\ Issued[1].names = <<"alpha", "beta">>

\* C6: when image and location resolve and no size matches the final
\* (cpus, ram, disks), createCluster logs the size error and returns None,
\* whatever was given on the command line.
C6_SizeNotFoundIsReported ==
    Called /\ ImageResolves(Final) /\ LocationResolves(Final) /\ ~SizeResolves(Final) =>
        /\ Returned = "None"
        /\ ErrorAbout("size")

\* C7: non-empty command-line disks D replace the file's disks: the final
\* disk list is the OS disk followed by D.
C7_CliDisksReplace ==
    Called /\ Args.disks # None /\ Get(Args.disks) # <<>> =>
        Final.disks = <<100>> \o Get(Args.disks)

C7_Witness ==
    /\ Called
    /\ Given.disks = <<100, 100, 100, 100>>
    /\ Args.disks = Some(<<50>>)
    /\ Final.disks = <<100, 50>>

\* createCluster got as far as node-name resolution
ReachedNodeNames == ImageResolves(Final) /\ LocationResolves(Final)

IsNode1ToN(nodes, n) ==
    /\ Len(nodes) = n
    /\ \A i \in 1..n : nodes[i] = "node" \o ToString(i)

NodesUnchanged ==
    /\ Final.nodes = Given.nodes
    /\ Final.numberOfNodes = Given.numberOfNodes

\* C8 as stated: names win over a count; any given count N, 0 included, gives
\* node1..nodeN; otherwise the spec's nodes stand.
C8_AnyGivenCount ==
    Called /\ ReachedNodeNames =>
        IF Args.nodes # None /\ Get(Args.nodes) # <<>>
        THEN Final.nodes = Get(Args.nodes) /\ Final.numberOfNodes = Len(Get(Args.nodes))
        ELSE IF Args.numberOfNodes # None
        THEN IsNode1ToN(Final.nodes, Get(Args.numberOfNodes))
                /\ Final.numberOfNodes = Get(Args.numberOfNodes)
        ELSE NodesUnchanged

\* C8, amended: in a call that reaches node-name resolution, command-line names
\* win over a count; otherwise a non-zero count N gives node1..nodeN and count
\* N; otherwise (no count, or a count of 0) the spec's nodes and count stand.
C8_NodeNamePrecedence ==
    Called /\ ReachedNodeNames =>
        IF Args.nodes # None /\ Get(Args.nodes) # <<>>
        THEN Final.nodes = Get(Args.nodes) /\ Final.numberOfNodes = Len(Get(Args.nodes))
        ELSE IF Args.numberOfNodes # None /\ Get(Args.numberOfNodes) # 0
        THEN IsNode1ToN(Final.nodes, Get(Args.numberOfNodes))
                /\ Final.numberOfNodes = Get(Args.numberOfNodes)
        ELSE NodesUnchanged

C8_Witness ==
    /\ Called
    /\ ReachedNodeNames
    /\ Args.nodes = Some(<<"alpha">>)
    /\ Args.numberOfNodes = Some(2)
    /\ Given.nodes = <<"web", "db">>
    /\ Final.nodes = <<"alpha">>
    /\ Final.numberOfNodes = 1

\* the text loaded by fromHjson and the ClusterInfo it produced
Loaded == hjsonString # None

LoadedText == Get(hjsonString)

LoadedCluster == Get(configurationInfo).cluster

IsNotDeployments(section) == section.kind # "deployments"

\* the same text with no deployments section at all
WithoutDeployments(text) == SelectSeq(text, IsNotDeployments)

\* the ClusterInfo parsed from `text` at some time up to now
ParsedFrom(text) == {fromHjson(text, t).configurationInfo.cluster : t \in 0..clock}

\* every cluster block of the text precedes its deployments section
DeploymentsTrail(text) ==
    \A i, j \in 1..Len(text) :
        text[i].kind = "deployments" /\ text[j].kind = "cluster" => j < i

\* C9 as stated: wherever the deployments section stands, the cluster fields
\* are those parsed from the text without it.
C9_OrderIndependent ==
    Loaded => LoadedCluster \in ParsedFrom(WithoutDeployments(LoadedText))

\* C9, amended: when the deployments section follows the cluster block, the
\* cluster fields are those parsed from the text without the section.
C9_TrailingDeployments ==
    Loaded /\ DeploymentsTrail(LoadedText) =>
        LoadedCluster \in ParsedFrom(WithoutDeployments(LoadedText))

C9_Witness ==
    /\ Loaded
    /\ Len(LoadedText) = 2
    /\ LoadedText[1].kind = "cluster"
    /\ LoadedText[2].kind = "deployments"
    /\ "name" \in DOMAIN LoadedText[1].body
    /\ "nodes" \in DOMAIN LoadedText[1].body
    /\ LoadedText[1].body["nodes"] = NodeCount(2)
    /\ LoadedCluster.name = "demo"
    /\ LoadedCluster.nodes = <<"node1", "node2">>

\* the cluster blocks of the loaded text that fromHjson parses
ParsedBlocks ==
    {LoadedText[j].body : j \in {j \in 1..Len(LoadedText) :
        /\ LoadedText[j].kind = "cluster"
        /\ \A i \in 1..j : LoadedText[i].kind # "deployments"}}

DisksFollowOsDisk(block) ==
    LoadedCluster.disks =
        <<100>> \o (IF "disks" \in DOMAIN block THEN block["disks"] ELSE <<>>)

\* C10 as stated: nodes: N gives count N and node1..nodeN for every N >= 0, a
\* list of names gives those names, disks D give [100] followed by D.
C10_EveryNodeCount ==
    Loaded =>
        \A block \in ParsedBlocks :
            /\ DisksFollowOsDisk(block)
            /\ "nodes" \in DOMAIN block =>
                IF block["nodes"].isList
                THEN /\ LoadedCluster.nodes = block["nodes"].names
                     /\ LoadedCluster.numberOfNodes = Len(block["nodes"].names)
                ELSE /\ IsNode1ToN(LoadedCluster.nodes, block["nodes"].count)
                     /\ LoadedCluster.numberOfNodes = block["nodes"].count

\* C10, amended: nodes: N with N >= 1 gives count N and node1..nodeN, a
\* non-empty list of names gives those names and their number, nodes: 0 or an
\* empty list gives the default 3 nodes node1..node3 like an absent key, and
\* disks D give [100] followed by D.
C10_ParsedNodesAndDisks ==
    Loaded =>
        \A block \in ParsedBlocks :
            /\ DisksFollowOsDisk(block)
            /\ IF "nodes" \in DOMAIN block /\ block["nodes"].isList
                    /\ block["nodes"].names # <<>>
               THEN /\ LoadedCluster.nodes = block["nodes"].names
                    /\ LoadedCluster.numberOfNodes = Len(block["nodes"].names)
               ELSE IF "nodes" \in DOMAIN block /\ ~block["nodes"].isList
                    /\ block["nodes"].count >= 1
               THEN /\ IsNode1ToN(LoadedCluster.nodes, block["nodes"].count)
                    /\ LoadedCluster.numberOfNodes = block["nodes"].count
               ELSE /\ IsNode1ToN(LoadedCluster.nodes, 3)
                    /\ LoadedCluster.numberOfNodes = 3

C10_Witness ==
    /\ Loaded
    /\ \E block \in ParsedBlocks :
        /\ DOMAIN block = {"name", "nodes", "disks"}
        /\ block["name"] = "demo"
        /\ block["nodes"] = NodeCount(3)
        /\ block["disks"] = <<50, 50>>
    /\ LoadedCluster.name = "demo"
    /\ LoadedCluster.numberOfNodes = 3
    /\ LoadedCluster.disks = <<100, 50, 50>>
    /\ LoadedCluster.nodes = <<"node1", "node2", "node3">>

\* main has returned a value to sys.exit
Exited == exitCode # None

\* the last destroyCluster or destroyNode call
Destroyed == destruction # None

DestroyReturned == Get(destruction).out.returned

DestroyCalls == Get(destruction).out.calls

\* the command main ran did what was asked: the configuration was read, the
\* cluster was created and no deployment reported errors, or the destroy call
\* returned True
CommandSucceeded ==
    IF Called THEN Returned = "cluster" /\ \A i \in 1..Len(deployed) : deployed[i] = 0
    ELSE Destroyed /\ DestroyReturned

\* the numberOfErrors of the deployment section that stopped main
DeploymentErrorCounts == {deployed[i] : i \in 1..Len(deployed)} \ {0}

\* C11: main returns 0 only when the command succeeded; every failure of the
\* configuration, of createCluster, of a deployment section or of
\* destroyCluster/destroyNode gives a non-zero exit code, the deployment error
\* count or 1.
C11_ExitCodeTellsSuccess ==
    Exited =>
        /\ (Get(exitCode) = 0 => CommandSucceeded)
        /\ (~CommandSucceeded =>
                Get(exitCode) # 0 /\ Get(exitCode) \in DeploymentErrorCounts \cup {1})

\* a cluster name came from the command line or from the configuration file
NameSupplied ==
    \/ Args.cluster # None /\ Get(Args.cluster) # ""
    \/ Loaded /\ \E block \in ParsedBlocks : "name" \in DOMAIN block

\* C12: when neither the configuration file nor the command line names the
\* cluster, the name createCluster uses is {user}-{timestamp} with the time of
\* the createCluster call, not the earlier time at which the configuration was
\* parsed or the ClusterInfo was built.
C12_DefaultNameAtResolution ==
    Called /\ ~NameSupplied =>
        /\ Final.name = DefaultName(clock)
        /\ \A i \in 1..Len(Issued) : Issued[i].cluster = DefaultName(clock)

\* the keys fromHjsonSerializable takes out of a cluster block
RecognizedKeys == {"cpus", "disks", "imageId", "locationId", "name", "nodes", "ram"}

UnrecognizedKeys(block) == DOMAIN block \ RecognizedKeys

\* the block with its unrecognized keys taken away
WithoutUnrecognized(block) == [k \in DOMAIN block \cap RecognizedKeys |-> block[k]]

\* the ClusterInfo fromHjsonSerializable builds from `block` at some time up to now
BuiltFrom(block) == {fromHjsonSerializable(block, t).clusterInfo : t \in 0..clock}

\* C13: unrecognized keys in a cluster block never make parsing fail and do
\* not change the ClusterInfo: it is the one parsed from the block without
\* those keys, and every unrecognized key is warned about.
C13_UnknownKeysOnlyWarn ==
    Loaded =>
        \A block \in ParsedBlocks :
            /\ LoadedCluster \in BuiltFrom(WithoutUnrecognized(block))
            /\ UnrecognizedKeys(block) \subseteq warnings

C13_Witness ==
    /\ Loaded
    /\ \E block \in ParsedBlocks :
        /\ DOMAIN block = {"name", "nodes", "disks", "color", "numberOfNodes"}
        /\ block["nodes"] = NodeCount(2)
        /\ block["numberOfNodes"] = 5
        /\ block["disks"] = <<50>>
    /\ warnings = {"color", "numberOfNodes"}
    /\ LoadedCluster.name = "demo"
    /\ LoadedCluster.numberOfNodes = 2
    /\ LoadedCluster.nodes = <<"node1", "node2">>
    /\ LoadedCluster.disks = <<100, 50>>

\* the last destroy call: what was asked for, what the driver listed when it
\* started and what the driver's destroy calls returned
DestroyType == Get(destruction).type

DestroyNames == Get(destruction).names

DestroyListed == Get(destruction).listed

DestroyResults == Get(destruction).results

AllRequestedFound == \A i \in 1..Len(DestroyNames) : DestroyNames[i] \in DestroyListed

\* C14: destroyCluster returns True exactly when every requested cluster was
\* found and the destroy call of every requested cluster returned success.
C14_TrueIffAllDestroyed ==
    Destroyed /\ DestroyType = "cluster" =>
        (DestroyReturned <=>
            /\ AllRequestedFound
            /\ \A i \in 1..Len(DestroyNames) : DestroyResults[i])

\* C15: when a name passed to destroyCluster or destroyNode is not in the
\* driver's listing, the call returns False, makes no destroy, destroy_node or
\* known-hosts cleanup call for any of the names, and leaves the driver's
\* clusters and nodes as they were.
C15_ValidatedBeforeDestroying ==
    Destroyed /\ ~AllRequestedFound =>
        /\ ~DestroyReturned
        /\ DestroyCalls = <<>>
        /\ DestroyType = "cluster" => clusterList = DestroyListed
        /\ DestroyType = "node" => nodeList = DestroyListed

\* east exists and is asked for before the missing north
C15_Witness ==
    /\ Destroyed
    /\ DestroyType = "cluster"
    /\ DestroyNames = <<"east", "north">>
    /\ DestroyListed = {"east", "west"}
    /\ ~DestroyReturned
    /\ DestroyCalls = <<>>
    /\ "east" \in clusterList

====
